---- MODULE Spec2Model ----
(***************************************************************************)
(* Sport-Line: the candidate ranker (services/geminiService.ts) and the   *)
(* map presenter (components MapView).                                     *)
(*                                                                         *)
(* The ranker is modelled as one invocation of rankCandidates: the call,   *)
(* the suspension on ai.models.generateContent, and the continuation that  *)
(* parses and merges the response, or the catch block.  The presenter is   *)
(* modelled as a React function component: props, the useState slots, and  *)
(* the view the last render produced.                                      *)
(***************************************************************************)
EXTENDS Integers, Sequences, FiniteSets, TLC

VARIABLES
    apiKey,             \* module constant read from process.env at load
    pc,                 \* position of the rankCandidates invocation
    currentUser,        \* argument of rankCandidates
    candidates,         \* argument of rankCandidates
    sent,               \* prompts handed to ai.models.generateContent
    response,           \* what generateContent settled with
    console,            \* console.warn / console.error output
    promise,            \* the promise rankCandidates returned
    parties,            \* MapView prop: the parties
    rankedCandidates,   \* MapView prop: the ranked candidates
    isLoaded,           \* MapView prop: the map script is loaded
    loadError,          \* MapView prop: the loader failed
    map,                \* useState: the map instance handed to onLoad
    selectedParty,      \* useState: the party whose panel is open
    selectedCandidate,  \* useState: the candidate whose panel is open
    joinCalls,          \* the arguments onJoinParty was invoked with
    view                \* what the last render returned

rankerVars == <<apiKey, pc, currentUser, candidates, sent, response, console, promise>>

mapProps == <<parties, rankedCandidates, isLoaded, loadError>>

mapVars == <<parties, rankedCandidates, isLoaded, loadError, map, selectedParty,
             selectedCandidate, joinCalls, view>>

vars == <<rankerVars, mapVars>>

----------------------------------------------------------------------------
(* Bounds of the model. *)

MaxCandidates == 2
MaxEntries == 2
MaxPlayers == 2
MaxJoinCalls == 2

----------------------------------------------------------------------------
(* Input domains. *)

\* uids of the users handed in as candidates
CandidateUids == {"a", "b"}

\* uids the model may answer with: "z" is no candidate
ResponseUids == {"a", "b", "z"}

\* numeric scores the model may answer with, in and out of 0..100
Scores == {-5, 0, 70, 150}

\* reasons the model may answer with
Reasons == {"", "great fit"}

LocationModes == {"live", "static"}

\* User records (types.User): the fields the ranker reads
Users == [uid : CandidateUids, displayName : {"n"}, locationMode : {"live"}]

CurrentUsers == [uid : {"u1"}, displayName : {"me"}, locationMode : LocationModes]

SeqsUpTo(S, n) == UNION {[1..k -> S] : k \in 0..n}

\* one element of the array the model returns; JSON null is an element too
NullEntry == [isNull |-> TRUE, uid |-> "", compatibilityScore |-> 0, rankingReason |-> ""]

Entries ==
    {NullEntry} \cup
    [isNull : {FALSE}, uid : ResponseUids, compatibilityScore : Scores, rankingReason : Reasons]

\* values JSON.parse can produce
JsonValues ==
    [type : {"null", "object", "number"}, items : {<< >>}] \cup
    [type : {"array"}, items : SeqsUpTo(Entries, MaxEntries)]

\* response.text: undefined or empty, text that is no JSON, or JSON text
Texts ==
    [kind : {"empty", "malformed"}, value : {[type |-> "null", items |-> << >>]}] \cup
    [kind : {"json"}, value : JsonValues]

NoResponse == [settled |-> "pending", text |-> [kind |-> "empty", value |-> [type |-> "null", items |-> << >>]]]

----------------------------------------------------------------------------
(* rankCandidates *)

UnavailableReason == "AI ranking unavailable"
FailedReason == "Ranking failed"
NoReason == "No specific reason provided"

\* { ...c, compatibilityScore, rankingReason }
Ranked(c, score, reason) ==
    [uid |-> c.uid, displayName |-> c.displayName, locationMode |-> c.locationMode,
     compatibilityScore |-> score, rankingReason |-> reason]

\* candidates.map(c => ({ ...c, compatibilityScore: 0, rankingReason: reason }))
Fallback(cs, reason) == [i \in 1..Len(cs) |-> Ranked(cs[i], 0, reason)]

\* the prompt: the current user's location label and each candidate's fields
Prompt(u, cs) ==
    [location |-> IF u.locationMode = "live" THEN "Live" ELSE "Static",
     candidates |-> [i \in 1..Len(cs) |-> cs[i].uid]]

\* JSON.parse(response.text || "[]")
JSONParse(text) ==
    CASE text.kind = "empty" -> [threw |-> FALSE, value |-> [type |-> "array", items |-> << >>]]
      [] text.kind = "malformed" -> [threw |-> TRUE, value |-> [type |-> "null", items |-> << >>]]
      [] OTHER -> [threw |-> FALSE, value |-> text.value]

\* rankedData.find((r) => r.uid === uid), scanning from index i;
\* reading .uid of a null element throws
RECURSIVE FindFrom(_, _, _)
FindFrom(items, i, uid) ==
    IF i > Len(items) THEN [threw |-> FALSE, found |-> FALSE, entry |-> NullEntry]
    ELSE IF items[i].isNull THEN [threw |-> TRUE, found |-> FALSE, entry |-> NullEntry]
    ELSE IF items[i].uid = uid THEN [threw |-> FALSE, found |-> TRUE, entry |-> items[i]]
    ELSE FindFrom(items, i + 1, uid)

\* rankedData.find(...): a value that is no array has no find method
Find(rankedData, uid) ==
    IF rankedData.type # "array" THEN [threw |-> TRUE, found |-> FALSE, entry |-> NullEntry]
    ELSE FindFrom(rankedData.items, 1, uid)

\* rank?.compatibilityScore || 0
ScoreOf(rank) ==
    IF rank.found /\ rank.entry.compatibilityScore # 0 THEN rank.entry.compatibilityScore ELSE 0

\* ReasonOf with ?? in the place of ||: an empty reason is kept
ReasonOfNullish(rank) ==
    IF rank.found THEN rank.entry.rankingReason ELSE NoReason

\* rank?.rankingReason || "No specific reason provided"
ReasonOf(rank) ==
    IF rank.found /\ rank.entry.rankingReason # "" THEN rank.entry.rankingReason ELSE NoReason

\* the callback of candidates.map
MergeOne(candidate, rankedData) ==
    LET rank == Find(rankedData, candidate.uid)
    IN  [threw |-> rank.threw, value |-> Ranked(candidate, ScoreOf(rank), ReasonOf(rank))]

\* Merge with the candidates that matched no entry filtered out
MergeMatchedOnly(cs, rankedData) ==
    LET kept == SelectSeq(cs, LAMBDA c : Find(rankedData, c.uid).found)
        each == [i \in 1..Len(cs) |-> MergeOne(cs[i], rankedData)]
    IN  [threw |-> \E i \in 1..Len(cs) : each[i].threw,
         value |-> [i \in 1..Len(kept) |-> MergeOne(kept[i], rankedData).value]]

\* candidates.map(candidate => ...): throws when a callback throws
Merge(cs, rankedData) ==
    LET each == [i \in 1..Len(cs) |-> MergeOne(cs[i], rankedData)]
    IN  [threw |-> \E i \in 1..Len(cs) : each[i].threw,
         value |-> [i \in 1..Len(cs) |-> each[i].value]]

\* Compare with its operands swapped: an ascending order
CompareAscending(a, b) == a.compatibilityScore - b.compatibilityScore

\* (a, b) => b.compatibilityScore - a.compatibilityScore
Compare(a, b) == b.compatibilityScore - a.compatibilityScore

\* insert x behind the elements the comparator does not place after it
RECURSIVE Insert(_, _)
Insert(s, x) ==
    IF s = << >> THEN <<x>>
    ELSE IF Compare(s[Len(s)], x) <= 0 THEN Append(s, x)
    ELSE Append(Insert(SubSeq(s, 1, Len(s) - 1), x), s[Len(s)])

\* Array.prototype.sort with the comparator: a stable sort
RECURSIVE Sort(_)
Sort(s) ==
    IF s = << >> THEN << >>
    ELSE Insert(Sort(SubSeq(s, 1, Len(s) - 1)), s[Len(s)])

\* the body of the try block after the await
TryBody(cs, text) ==
    LET parsed == JSONParse(text)
        merged == Merge(cs, parsed.value)
    IN  IF parsed.threw THEN [threw |-> TRUE, value |-> << >>]
        ELSE IF merged.threw THEN [threw |-> TRUE, value |-> << >>]
        ELSE [threw |-> FALSE, value |-> Sort(merged.value)]

\* TryCatch without the catch block: the exception leaves rankCandidates
TryWithoutCatch(cs, body) ==
    IF body.threw
    THEN [state |-> "rejected", value |-> << >>, console |-> "none"]
    ELSE [state |-> "fulfilled", value |-> body.value, console |-> "none"]

\* try { ... } catch (error) { console.error(...); return fallback }
TryCatch(cs, body) ==
    IF body.threw
    THEN [state |-> "fulfilled", value |-> Fallback(cs, FailedReason), console |-> "error"]
    ELSE [state |-> "fulfilled", value |-> body.value, console |-> "none"]

Pending == [state |-> "pending", value |-> << >>]

\* KeyMissing without the test of the key
KeyNeverMissing(key) == FALSE

\* the guard of the short circuit: !apiKey
KeyMissing(key) == key = ""

\* rankCandidates(u, cs) up to its first suspension
Call(u, cs) ==
    /\ pc = "idle"
    /\ currentUser' = u
    /\ candidates' = cs
    /\ IF KeyMissing(apiKey)
       THEN /\ console' = "warn"
            /\ promise' = [state |-> "fulfilled", value |-> Fallback(cs, UnavailableReason)]
            /\ sent' = sent
            /\ pc' = "returned"
       ELSE /\ sent' = Append(sent, Prompt(u, cs))
            /\ promise' = Pending
            /\ console' = console
            /\ pc' = "awaiting"
    /\ UNCHANGED <<apiKey, response>>
    /\ UNCHANGED mapVars

\* generateContent resolves with a response carrying text
Resolve(text) ==
    /\ pc = "awaiting"
    /\ response' = [settled |-> "resolved", text |-> text]
    /\ LET out == TryCatch(candidates, TryBody(candidates, text))
       IN  /\ promise' = [state |-> out.state, value |-> out.value]
           /\ console' = out.console
    /\ pc' = "returned"
    /\ UNCHANGED <<apiKey, currentUser, candidates, sent>>
    /\ UNCHANGED mapVars

\* generateContent rejects (network failure, API error)
Reject ==
    /\ pc = "awaiting"
    /\ response' = [settled |-> "rejected", text |-> NoResponse.text]
    /\ LET out == TryCatch(candidates, [threw |-> TRUE, value |-> << >>])
       IN  /\ promise' = [state |-> out.state, value |-> out.value]
           /\ console' = out.console
    /\ pc' = "returned"
    /\ UNCHANGED <<apiKey, currentUser, candidates, sent>>
    /\ UNCHANGED mapVars

----------------------------------------------------------------------------
(* MapView *)

\* the currentUser prop of MapView: the id of the user looking at the map
currentUserId == "u1"

PartyIds == {"p1", "p2"}

\* Party records (types.Party): the fields the join control reads
Parties ==
    [id : PartyIds, members : {{}, {currentUserId}},
     playersCurrent : 0..(MaxPlayers + 1), playersMax : {MaxPlayers}]

\* useState<Party | null>(null)
NoParty == [id |-> "", members |-> {}, playersCurrent |-> 0, playersMax |-> 0]

\* useState<RankedUser | null>(null)
NoCandidate ==
    [uid |-> "", displayName |-> "", locationMode |-> "",
     compatibilityScore |-> 0, rankingReason |-> ""]

\* the candidates prop: a list rankCandidates resolved to
RankedLists ==
    {<<Ranked([uid |-> "a", displayName |-> "n", locationMode |-> "live"], 70, "great fit"),
       Ranked([uid |-> "b", displayName |-> "n", locationMode |-> "live"], 0, NoReason)>>}

NoButton == [text |-> "", disabled |-> TRUE]

\* getButtonState with the fullness test ahead of the membership test
getButtonStateFullFirst(party) ==
    LET isJoined == currentUserId \in party.members
        isFull == party.playersCurrent >= party.playersMax
    IN  IF isFull THEN [text |-> "Full", disabled |-> TRUE]
        ELSE IF isJoined THEN [text |-> "Joined", disabled |-> TRUE]
        ELSE [text |-> "Join Party", disabled |-> FALSE]

\* getButtonState(party)
getButtonState(party) ==
    LET isJoined == currentUserId \in party.members
        isFull == party.playersCurrent >= party.playersMax
    IN  IF isJoined THEN [text |-> "Joined", disabled |-> TRUE]
        ELSE IF isFull THEN [text |-> "Full", disabled |-> TRUE]
        ELSE [text |-> "Join Party", disabled |-> FALSE]

\* a view without map: the error panel or the loading indicator
Blank(error, loading) ==
    [errorPanel |-> error, loadingIndicator |-> loading, googleMap |-> FALSE,
     partyMarkers |-> {}, candidateMarkers |-> {},
     partyPanel |-> [open |-> FALSE, id |-> "", button |-> NoButton],
     candidatePanel |-> [open |-> FALSE, uid |-> ""]]

\* Render with the isLoaded test ahead of the loadError test
RenderLoadedFirst(ps, cs, loaded, err, selParty, selCandidate) ==
    IF ~loaded THEN Blank(FALSE, TRUE)
    ELSE IF err THEN Blank(TRUE, FALSE)
    ELSE [errorPanel |-> FALSE, loadingIndicator |-> FALSE, googleMap |-> TRUE,
          partyMarkers |-> {ps[i].id : i \in 1..Len(ps)},
          candidateMarkers |-> {cs[i].uid : i \in 1..Len(cs)},
          partyPanel |->
              IF selParty # NoParty
              THEN [open |-> TRUE, id |-> selParty.id, button |-> getButtonState(selParty)]
              ELSE [open |-> FALSE, id |-> "", button |-> NoButton],
          candidatePanel |->
              IF selCandidate # NoCandidate
              THEN [open |-> TRUE, uid |-> selCandidate.uid]
              ELSE [open |-> FALSE, uid |-> ""]]

\* the body of MapView: what it returns for the props and the state
Render(ps, cs, loaded, err, selParty, selCandidate) ==
    IF err THEN Blank(TRUE, FALSE)
    ELSE IF ~loaded THEN Blank(FALSE, TRUE)
    ELSE [errorPanel |-> FALSE, loadingIndicator |-> FALSE, googleMap |-> TRUE,
          partyMarkers |-> {ps[i].id : i \in 1..Len(ps)},
          candidateMarkers |-> {cs[i].uid : i \in 1..Len(cs)},
          partyPanel |->
              IF selParty # NoParty
              THEN [open |-> TRUE, id |-> selParty.id, button |-> getButtonState(selParty)]
              ELSE [open |-> FALSE, id |-> "", button |-> NoButton],
          candidatePanel |->
              IF selCandidate # NoCandidate
              THEN [open |-> TRUE, uid |-> selCandidate.uid]
              ELSE [open |-> FALSE, uid |-> ""]]

\* the view after a step, and the map handle: onUnmount runs when the
\* GoogleMap element leaves the view
Rerender ==
    /\ view' = Render(parties', rankedCandidates', isLoaded', loadError',
                      selectedParty', selectedCandidate')
    /\ map' = IF view'.googleMap THEN map ELSE FALSE

\* the loader reports the script loaded
LoadSucceeds ==
    /\ ~isLoaded
    /\ isLoaded' = TRUE
    /\ UNCHANGED <<parties, rankedCandidates, loadError, selectedParty,
                   selectedCandidate, joinCalls>>
    /\ Rerender
    /\ UNCHANGED rankerVars

\* the loader reports an error
LoadFails ==
    /\ ~loadError
    /\ loadError' = TRUE
    /\ UNCHANGED <<parties, rankedCandidates, isLoaded, selectedParty,
                   selectedCandidate, joinCalls>>
    /\ Rerender
    /\ UNCHANGED rankerVars

\* the parent passes a new parties prop in which party i is replaced by p
UpdateParties(i, p) ==
    /\ p.id = parties[i].id
    /\ p # parties[i]
    /\ parties' = [parties EXCEPT ![i] = p]
    /\ UNCHANGED <<rankedCandidates, isLoaded, loadError, selectedParty,
                   selectedCandidate, joinCalls>>
    /\ Rerender
    /\ UNCHANGED rankerVars

\* onLoad: setMap(mapInstance)
onLoad ==
    /\ view.googleMap
    /\ ~map
    /\ map' = TRUE
    /\ UNCHANGED <<parties, rankedCandidates, isLoaded, loadError, selectedParty,
                   selectedCandidate, joinCalls, view>>
    /\ UNCHANGED rankerVars

\* the party marker's onClick: setSelectedParty(party)
ClickPartyMarker(i) ==
    /\ view.googleMap
    /\ parties[i].id \in view.partyMarkers
    /\ selectedParty' = parties[i]
    /\ UNCHANGED <<parties, rankedCandidates, isLoaded, loadError,
                   selectedCandidate, joinCalls>>
    /\ Rerender
    /\ UNCHANGED rankerVars

\* the candidate marker's onClick: setSelectedCandidate(candidate)
ClickCandidateMarker(i) ==
    /\ view.googleMap
    /\ rankedCandidates[i].uid \in view.candidateMarkers
    /\ selectedCandidate' = rankedCandidates[i]
    /\ UNCHANGED <<parties, rankedCandidates, isLoaded, loadError,
                   selectedParty, joinCalls>>
    /\ Rerender
    /\ UNCHANGED rankerVars

\* the GoogleMap's onClick: setSelectedParty(null)
ClickMap ==
    /\ view.googleMap
    /\ selectedParty' = NoParty
    /\ UNCHANGED <<parties, rankedCandidates, isLoaded, loadError,
                   selectedCandidate, joinCalls>>
    /\ Rerender
    /\ UNCHANGED rankerVars

\* the party panel's onCloseClick: setSelectedParty(null)
ClosePartyPanel ==
    /\ view.partyPanel.open
    /\ selectedParty' = NoParty
    /\ UNCHANGED <<parties, rankedCandidates, isLoaded, loadError,
                   selectedCandidate, joinCalls>>
    /\ Rerender
    /\ UNCHANGED rankerVars

\* the candidate panel's onCloseClick: setSelectedCandidate(null)
CloseCandidatePanel ==
    /\ view.candidatePanel.open
    /\ selectedCandidate' = NoCandidate
    /\ UNCHANGED <<parties, rankedCandidates, isLoaded, loadError,
                   selectedParty, joinCalls>>
    /\ Rerender
    /\ UNCHANGED rankerVars

\* a click on the join button: a disabled button dispatches no click, an
\* enabled one runs onJoinParty(selectedParty.id)
ClickJoin ==
    /\ view.partyPanel.open
    /\ Len(joinCalls) < MaxJoinCalls
    /\ joinCalls' = IF view.partyPanel.button.disabled THEN joinCalls
                    ELSE Append(joinCalls, view.partyPanel.id)
    /\ UNCHANGED <<parties, rankedCandidates, isLoaded, loadError, selectedParty,
                   selectedCandidate>>
    /\ Rerender
    /\ UNCHANGED rankerVars

\* the parties the view is first rendered with: nobody has joined yet
InitialParties ==
    [i \in 1..2 |-> [id |-> IF i = 1 THEN "p1" ELSE "p2", members |-> {},
                     playersCurrent |-> 0, playersMax |-> MaxPlayers]]

InitMap ==
    /\ parties = InitialParties
    /\ rankedCandidates \in RankedLists
    /\ isLoaded = FALSE
    /\ loadError = FALSE
    /\ map = FALSE
    /\ selectedParty = NoParty
    /\ selectedCandidate = NoCandidate
    /\ joinCalls = << >>
    /\ view = Render(parties, rankedCandidates, isLoaded, loadError,
                     selectedParty, selectedCandidate)

NextMap ==
    \/ LoadSucceeds
    \/ LoadFails
    \/ \E i \in 1..Len(parties), p \in Parties : UpdateParties(i, p)
    \/ onLoad
    \/ \E i \in 1..Len(parties) : ClickPartyMarker(i)
    \/ \E i \in 1..Len(rankedCandidates) : ClickCandidateMarker(i)
    \/ ClickMap
    \/ ClosePartyPanel
    \/ CloseCandidatePanel
    \/ ClickJoin

InitRanker ==
    /\ apiKey \in {"", "key"}
    /\ pc = "idle"
    /\ currentUser = [uid |-> "", displayName |-> "", locationMode |-> ""]
    /\ candidates = << >>
    /\ sent = << >>
    /\ response = NoResponse
    /\ console = "none"
    /\ promise = Pending

Init == InitRanker /\ InitMap

NextRanker ==
    \/ pc = "idle" /\ \E u \in CurrentUsers, cs \in SeqsUpTo(Users, MaxCandidates) : Call(u, cs)
    \/ pc = "awaiting" /\ \E text \in Texts : Resolve(text)
    \/ Reject

SpecRanker == Init /\ [][NextRanker]_vars

\* the application loaded with a credential in GEMINI_API_KEY
InitWithKey == Init /\ apiKey = "key"

\* the presenter, in an application that has a credential configured
SpecMap == InitWithKey /\ [][NextMap]_vars

----------------------------------------------------------------------------
(* Properties of the ranker. *)

Returned == pc = "returned"

Value == promise.value

\* the number of elements of s whose uid is uid
CountUid(s, uid) == Cardinality({i \in 1..Len(s) : s[i].uid = uid})

\* nothing was thrown after a response arrived: the merged list was returned
Succeeded == Returned /\ response.settled = "resolved" /\ console = "none"

\* the elements of the returned array, when it is one
Items == IF response.text.kind = "json" THEN response.text.value.items ELSE << >>

\* C1: on every path the promise is fulfilled with a list of exactly
\* |candidates| elements that carries every uid as often as candidates does:
\* no candidate is dropped and none is synthesized.
C1_SameLengthSameUids ==
    Returned =>
        /\ promise.state = "fulfilled"
        /\ Len(Value) = Len(candidates)
        /\ \A uid \in CandidateUids \cup ResponseUids :
               CountUid(Value, uid) = CountUid(candidates, uid)

\* a successful response that omits candidate "b" and adds the unknown "z"
C1_Witness ==
    /\ Succeeded
    /\ Len(candidates) = 2 /\ candidates[1].uid = "a" /\ candidates[2].uid = "b"
    /\ Len(Items) = 2 /\ Items[1].uid = "z" /\ Items[2].uid = "a"

\* C2: the resolved list is sorted non-increasing by compatibilityScore, on the
\* success path and on both fallback paths.
C2_SortedDescending ==
    Returned =>
        \A i \in 1..(Len(Value) - 1) :
            Value[i].compatibilityScore >= Value[i + 1].compatibilityScore

\* the second candidate got the higher score and was moved to the front
C2_Witness ==
    /\ Succeeded
    /\ Len(candidates) = 2 /\ candidates[1].uid = "a" /\ candidates[2].uid = "b"
    /\ Len(Value) = 2 /\ Value[1].uid = "b" /\ Value[2].uid = "a"
    /\ Value[1].compatibilityScore = 70 /\ Value[2].compatibilityScore = 0

\* C3: every element of the returned list has a compatibilityScore in 0..100,
\* whatever score the response carries for its uid.
C3_ScoreInRange ==
    Returned =>
        \A i \in 1..Len(Value) :
            Value[i].compatibilityScore >= 0 /\ Value[i].compatibilityScore <= 100

\* C4: without a credential no prompt is ever sent to the model, and the call
\* returns every candidate, in input order, with score 0 and the reason
\* "AI ranking unavailable".
C4_NoCredential ==
    apiKey = "" =>
        /\ sent = << >>
        /\ response = NoResponse
        /\ Returned =>
               /\ promise.state = "fulfilled"
               /\ Len(Value) = Len(candidates)
               /\ \A i \in 1..Len(candidates) :
                      /\ Value[i].uid = candidates[i].uid
                      /\ Value[i].displayName = candidates[i].displayName
                      /\ Value[i].locationMode = candidates[i].locationMode
                      /\ Value[i].compatibilityScore = 0
                      /\ Value[i].rankingReason = "AI ranking unavailable"

C4_Witness ==
    /\ apiKey = "" /\ Returned
    /\ Len(candidates) = 2 /\ candidates[1].uid = "b" /\ candidates[2].uid = "a"
    /\ currentUser.locationMode = "live"

\* the call or the handling of its response threw
Threw ==
    \/ response.settled = "rejected"
    \/ /\ response.settled = "resolved"
       /\ \/ response.text.kind = "malformed"
          \/ /\ response.text.kind = "json"
             /\ response.text.value.type # "array"
             /\ candidates # << >>
          \/ console = "error"

\* C5: with a credential, when the model call or the handling of its response
\* throws, the promise is still fulfilled, with every candidate in input order
\* at score 0 and reason "Ranking failed"; no merged score leaks.
C5_FailureFallback ==
    (Returned /\ apiKey # "" /\ Threw) =>
        /\ promise.state = "fulfilled"
        /\ Len(Value) = Len(candidates)
        /\ \A i \in 1..Len(candidates) :
               /\ Value[i].uid = candidates[i].uid
               /\ Value[i].displayName = candidates[i].displayName
               /\ Value[i].locationMode = candidates[i].locationMode
               /\ Value[i].compatibilityScore = 0
               /\ Value[i].rankingReason = "Ranking failed"

\* the first candidate matched an entry with score 70, then the lookup for the
\* second candidate ran into a null element
C5_Witness ==
    /\ Returned /\ apiKey # "" /\ response.settled = "resolved"
    /\ Len(candidates) = 2 /\ candidates[1].uid = "a" /\ candidates[2].uid = "b"
    /\ Len(Items) = 2 /\ ~Items[1].isNull /\ Items[1].uid = "a"
    /\ Items[1].compatibilityScore = 70 /\ Items[2].isNull
    /\ console = "error"

\* the entries of the response that carry uid
Matches(uid) == {i \in 1..Len(Items) : ~Items[i].isNull /\ Items[i].uid = uid}

\* the first entry of the response that carries uid
FirstMatch(uid) == Items[CHOOSE i \in Matches(uid) : \A j \in Matches(uid) : i <= j]

\* C6 as stated: on a successful response a candidate whose uid appears in an
\* entry gets exactly an entry's score and reason, an empty reason included; a
\* candidate without entry gets 0 and "No specific reason provided".
C6_EntryScoreAndReason ==
    Succeeded =>
        \A i \in 1..Len(Value) :
            IF Matches(Value[i].uid) # {}
            THEN \E k \in Matches(Value[i].uid) :
                     /\ Value[i].compatibilityScore = Items[k].compatibilityScore
                     /\ Value[i].rankingReason = Items[k].rankingReason
            ELSE /\ Value[i].compatibilityScore = 0
                 /\ Value[i].rankingReason = "No specific reason provided"

\* C6 amended: a matched candidate gets the score of the first entry with its
\* uid and that entry's reason, except that an empty reason is replaced by
\* "No specific reason provided"; an unmatched candidate gets 0 and that same
\* reason; every element is a candidate's record, so an entry with an unknown
\* uid has no effect.
C6_FirstEntryNonEmptyReason ==
    Succeeded =>
        /\ \A i \in 1..Len(Value) :
               /\ \E k \in 1..Len(candidates) :
                      /\ Value[i].uid = candidates[k].uid
                      /\ Value[i].displayName = candidates[k].displayName
                      /\ Value[i].locationMode = candidates[k].locationMode
               /\ IF Matches(Value[i].uid) # {}
                  THEN /\ Value[i].compatibilityScore =
                              FirstMatch(Value[i].uid).compatibilityScore
                       /\ Value[i].rankingReason =
                              IF FirstMatch(Value[i].uid).rankingReason = ""
                              THEN "No specific reason provided"
                              ELSE FirstMatch(Value[i].uid).rankingReason
                  ELSE /\ Value[i].compatibilityScore = 0
                       /\ Value[i].rankingReason = "No specific reason provided"
        /\ Len(Value) = Len(candidates)

\* candidate "a" matched two entries, the first with score 70 and an empty
\* reason; candidate "b" matched none
C6_Witness ==
    /\ Succeeded
    /\ Len(candidates) = 2 /\ candidates[1].uid = "b" /\ candidates[2].uid = "a"
    /\ Len(Items) = 2 /\ Matches("a") = {1, 2} /\ Matches("b") = {}
    /\ Items[1].compatibilityScore = 70 /\ Items[1].rankingReason = ""
    /\ Items[2].compatibilityScore = 150 /\ Items[2].rankingReason = "great fit"
    /\ Value[1].uid = "a" /\ Value[1].rankingReason = "No specific reason provided"

----------------------------------------------------------------------------
(* Properties of the map presenter. *)

\* C7: a click on an empty map area clears the selection of the party slot
\* and of the candidate slot: after it no info panel is open.
C7_MapClickClearsBothSlots ==
    [][ClickMap => (~view'.partyPanel.open /\ ~view'.candidatePanel.open
                    /\ selectedParty' = NoParty /\ selectedCandidate' = NoCandidate)]_vars

NoMapRendered ==
    /\ ~view.googleMap
    /\ view.partyMarkers = {} /\ view.candidateMarkers = {}
    /\ ~view.partyPanel.open /\ ~view.candidatePanel.open
    /\ ~map

\* C9: with a load error the error panel is rendered and no map, marker or
\* panel, even when isLoaded is true; without error and not loaded the loading
\* indicator is rendered and no marker; only without error and loaded the map
\* is rendered.  Exactly one of the three is rendered in every state.
C9_RenderingMode ==
    /\ loadError => (view.errorPanel /\ ~view.loadingIndicator /\ NoMapRendered)
    /\ (~loadError /\ ~isLoaded) =>
           (view.loadingIndicator /\ ~view.errorPanel /\ NoMapRendered)
    /\ (~loadError /\ isLoaded) =>
           (view.googleMap /\ ~view.errorPanel /\ ~view.loadingIndicator
            /\ view.partyMarkers = {parties[i].id : i \in 1..Len(parties)})
    /\ Cardinality({m \in {"error", "loading", "map"} :
                       \/ m = "error" /\ view.errorPanel
                       \/ m = "loading" /\ view.loadingIndicator
                       \/ m = "map" /\ view.googleMap}) = 1

\* the loader failed after the map was shown and a party was selected
C9_Witness ==
    /\ loadError /\ isLoaded
    /\ selectedParty # NoParty /\ selectedCandidate # NoCandidate
    /\ view.errorPanel

\* C10: onJoinParty(partyId) is invoked at most once per click and only while,
\* by the parties prop of that moment, the current user is no member of that
\* party and the party is not full.
C10_JoinOnlyWhenEnabledByParties ==
    [][joinCalls' # joinCalls =>
          /\ Len(joinCalls') = Len(joinCalls) + 1
          /\ \E i \in 1..Len(parties) :
                 /\ parties[i].id = joinCalls'[Len(joinCalls')]
                 /\ currentUserId \notin parties[i].members
                 /\ parties[i].playersCurrent < parties[i].playersMax]_vars

====
